---- MODULE Spec2Model ----
(***************************************************************************)
(* convert-services.py: the regex rewrite of a service file from           *)
(* individual `export function` declarations to one exported object        *)
(* literal (convert_service_file), and the batch driver (main).            *)
(*                                                                         *)
(* Text is a sequence of tokens.  A token is a maximal piece of text the   *)
(* patterns of the script cannot look inside: a keyword or identifier      *)
(* (word characters), one whitespace character, or one punctuation         *)
(* character.  Two adjacent word tokens form one longer word, as their     *)
(* characters do in the file.                                              *)
(***************************************************************************)
EXTENDS Integers, Sequences, FiniteSets, TLC

VARIABLES
    file,            \* content of the file at filepath
    service_name,    \* second argument of convert_service_file
    pc,              \* position of the running code
    content,         \* local: text read from the file
    exports,         \* local: result of re.findall
    new_content,     \* local: text being assembled
    function_blocks, \* local: result of re.split
    i,               \* local: index of the for loop over function_blocks (from 1)
    emitted,         \* history: the method blocks appended to new_content, in order
    result,          \* outcome of the last finished call: "True", "False", "raised"
    calls,           \* history: one record per finished call of convert_service_file
    idx,             \* main: index of the for loop over services_to_convert (from 1)
    attempted        \* history: the filenames main has dealt with, in order

vars == <<file, service_name, pc, content, exports, new_content, function_blocks,
          i, emitted, result, calls, idx, attempted>>

locals == <<content, exports, new_content, function_blocks, i, emitted>>

-----------------------------------------------------------------------------
(* Bounds of the model *)

\* number of pieces the file given to convert_service_file is made of (Spec)
MaxPieces == 4
\* number of pieces a file of the batch run is made of (SpecMain)
MaxMainPieces == 1
\* number of calls of convert_service_file on the same file (Spec)
MaxCalls == 2

-----------------------------------------------------------------------------
(* Character classes *)

\* \s : the whitespace characters of the model
WS == {" ", "\n"}

\* characters that are neither \s nor \w
Punct == {"(", "*", "{", "}", "=", ";", ","}

\* \w+ tokens: anything that is not whitespace or punctuation ("" stands for
\* "no character", before the start and after the end of the text)
IsWord(t) == t # "" /\ t \notin WS /\ t \notin Punct

Tok(s, p) == IF p >= 1 /\ p <= Len(s) THEN s[p] ELSE ""

\* ^ under re.MULTILINE
AtLineStart(s, p) == p = 1 \/ Tok(s, p - 1) = "\n"

RECURSIVE SkipWS(_, _)
\* \s* from p, greedy: the first position that holds no whitespace
SkipWS(s, p) == IF Tok(s, p) \in WS THEN SkipWS(s, p + 1) ELSE p

RECURSIVE SkipWord(_, _)
\* \w* from p, greedy
SkipWord(s, p) == IF IsWord(Tok(s, p)) THEN SkipWord(s, p + 1) ELSE p

RECURSIVE RStrip(_)
\* str.rstrip()
RStrip(s) ==
    IF s # <<>> /\ s[Len(s)] \in WS THEN RStrip(SubSeq(s, 1, Len(s) - 1)) ELSE s

\* str.strip() is empty
IsBlank(s) == \A k \in 1..Len(s) : s[k] \in WS

RECURSIVE Flatten(_)
\* concatenation of a sequence of texts
Flatten(ss) == IF ss = <<>> THEN <<>> ELSE Head(ss) \o Flatten(Tail(ss))

-----------------------------------------------------------------------------
(* The patterns *)

\* a capture group that took no part in the match (None)
NoGroup == [none |-> TRUE, text |-> <<>>]
Group(t) == [none |-> FALSE, text |-> t]

NoMatch == [ok |-> FALSE, end |-> 0, grp |-> NoGroup, name |-> <<>>]

\* (async\s+)?function at q: the group, and where `function` stands
AsyncOpt(s, q) ==
    LET f == SkipWS(s, q + 1) IN
    IF Tok(s, q) = "async" /\ Tok(s, q + 1) \in WS /\ Tok(s, f) = "function"
    THEN [ok |-> TRUE, grp |-> Group(SubSeq(s, q, f - 1)), fpos |-> f]
    ELSE IF Tok(s, q) = "function"
    THEN [ok |-> TRUE, grp |-> NoGroup, fpos |-> q]
    ELSE [ok |-> FALSE, grp |-> NoGroup, fpos |-> 0]

\* (async\s+)?function\s+(\w+)\s*\( at q
SignatureAt(s, q) ==
    LET a == AsyncOpt(s, q)
        n == SkipWS(s, a.fpos + 1)
        e == SkipWord(s, n)
        f == SkipWS(s, e)
    IN  IF a.ok /\ Tok(s, a.fpos + 1) \in WS /\ e > n /\ Tok(s, f) = "("
        THEN [ok |-> TRUE, end |-> f, grp |-> a.grp, name |-> SubSeq(s, n, e - 1)]
        ELSE NoMatch

\* the export pattern without its ^ anchor
ExportAtUnanchored(s, p) ==
    IF Tok(s, p) = "export" /\ Tok(s, p + 1) \in WS
    THEN SignatureAt(s, SkipWS(s, p + 1))
    ELSE NoMatch

\* export_pattern at p: ^export\s+(async\s+)?function\s+(\w+)\s*\(
ExportAt(s, p) ==
    IF AtLineStart(s, p) /\ Tok(s, p) = "export" /\ Tok(s, p + 1) \in WS
    THEN SignatureAt(s, SkipWS(s, p + 1))
    ELSE NoMatch

\* a lookahead that asks for the whole export pattern
SplitAheadStrict(s, p) ==
    LET m == ExportAtUnanchored(s, p) IN
    [ok |-> m.ok, grp |-> m.grp, fpos |-> 0]

\* the lookahead of the split pattern at p: export\s+(async\s+)?function
SplitAhead(s, p) ==
    IF Tok(s, p) = "export" /\ Tok(s, p + 1) \in WS
    THEN AsyncOpt(s, SkipWS(s, p + 1))
    ELSE [ok |-> FALSE, grp |-> NoGroup, fpos |-> 0]

RECURSIVE FindAllFrom(_, _)
\* re.findall(export_pattern, s, re.MULTILINE) from p: the groups of each match,
\* a group that took no part given as ''
FindAllFrom(s, p) ==
    IF p > Len(s) THEN <<>>
    ELSE LET m == ExportAt(s, p) IN
         IF m.ok
         THEN <<[async |-> m.grp.text, name |-> m.name]>> \o FindAllFrom(s, m.end + 1)
         ELSE FindAllFrom(s, p + 1)

FindAll(s) == FindAllFrom(s, 1)

RECURSIVE SearchFrom(_, _)
\* re.search(export_pattern, s, re.MULTILINE).start(), 0 when there is no match
SearchFrom(s, p) ==
    IF p > Len(s) THEN 0
    ELSE IF ExportAt(s, p).ok THEN p ELSE SearchFrom(s, p + 1)

Search(s) == SearchFrom(s, 1)

RECURSIVE SplitFrom(_, _, _)
\* re.split(r'\n(?=export\s+(async\s+)?function)', s) from p, the current piece
\* starting at b: the pieces between the matches, each match's group between them
SplitFrom(s, b, p) ==
    IF p > Len(s) THEN <<Group(SubSeq(s, b, Len(s)))>>
    ELSE LET a == SplitAhead(s, p + 1) IN
         IF s[p] = "\n" /\ a.ok
         THEN <<Group(SubSeq(s, b, p - 1)), a.grp>> \o SplitFrom(s, p + 1, p + 1)
         ELSE SplitFrom(s, b, p + 1)

Split(s) == SplitFrom(s, 1, 1)

RECURSIVE SubExportFrom(_, _)
\* re.sub(r'^export\s+', '', s, flags=re.MULTILINE) from p
SubExportFrom(s, p) ==
    IF p > Len(s) THEN <<>>
    ELSE IF AtLineStart(s, p) /\ s[p] = "export" /\ Tok(s, p + 1) \in WS
    THEN SubExportFrom(s, SkipWS(s, p + 1))
    ELSE <<s[p]>> \o SubExportFrom(s, p + 1)

SubExport(s) == SubExportFrom(s, 1)

RECURSIVE SubFunctionNoAsyncFrom(_, _)
\* the replacement r'\2(' in place of r'\1\2('
SubFunctionNoAsyncFrom(s, p) ==
    IF p > Len(s) THEN <<>>
    ELSE LET m == IF AtLineStart(s, p) THEN SignatureAt(s, p) ELSE NoMatch IN
         IF m.ok
         THEN m.name \o <<"(">> \o SubFunctionNoAsyncFrom(s, m.end + 1)
         ELSE <<s[p]>> \o SubFunctionNoAsyncFrom(s, p + 1)

SubFunctionNoAsync(s) == SubFunctionNoAsyncFrom(s, 1)

RECURSIVE SubFunctionFrom(_, _)
\* re.sub(r'^(async\s+)?function\s+(\w+)\s*\(', r'\1\2(', s, flags=re.MULTILINE)
\* from p; a group that took no part is replaced by nothing
SubFunctionFrom(s, p) ==
    IF p > Len(s) THEN <<>>
    ELSE LET m == IF AtLineStart(s, p) THEN SignatureAt(s, p) ELSE NoMatch IN
         IF m.ok
         THEN m.grp.text \o m.name \o <<"(">> \o SubFunctionFrom(s, m.end + 1)
         ELSE <<s[p]>> \o SubFunctionFrom(s, p + 1)

SubFunction(s) == SubFunctionFrom(s, 1)

RECURSIVE SplitLinesFrom(_, _, _)
\* s.split('\n')
SplitLinesFrom(s, b, p) ==
    IF p > Len(s) THEN <<SubSeq(s, b, Len(s))>>
    ELSE IF s[p] = "\n"
    THEN <<SubSeq(s, b, p - 1)>> \o SplitLinesFrom(s, p + 1, p + 1)
    ELSE SplitLinesFrom(s, b, p + 1)

SplitLines(s) == SplitLinesFrom(s, 1, 1)

RECURSIVE JoinLines(_)
\* '\n'.join(lines)
JoinLines(ls) ==
    IF Len(ls) = 1 THEN ls[1] ELSE ls[1] \o <<"\n">> \o JoinLines(Tail(ls))

\* the indentation of one line
IndentLine(line) == IF ~IsBlank(line) THEN <<" ", " ">> \o line ELSE line

\* lines 52-54: indent the entire block
Indent(s) ==
    LET lines == SplitLines(s) IN
    JoinLines([k \in 1..Len(lines) |-> IndentLine(lines[k])])

-----------------------------------------------------------------------------
(* convert_service_file *)

\* line 33: f"export const {service_name} = {{\n"
Header(name) == <<"export", " ", "const", " ", name, " ", "=", " ", "{", "\n">>

\* line 63: "};\n"
Footer == <<"}", ";", "\n">>

\* line 18: `not exports`
NoExports(found) == found = <<>>

\* the import section without .rstrip()
ImportsSectionUntrimmed(s, start) == SubSeq(s, 1, start - 1)

\* the import section taken up to the match's end() instead of its start()
ImportsSectionThroughMatch(s, start) == RStrip(SubSeq(s, 1, ExportAt(s, start).end))

\* line 29: content[:first_export_match.start()].rstrip()
ImportsSection(s, start) == RStrip(SubSeq(s, 1, start - 1))

\* line 32-33: the text the output starts with
Opening(s, start, name) == ImportsSection(s, start) \o <<"\n", "\n">> \o Header(name)

\* line 36-39: remaining, and its split into function_blocks
FunctionBlocks(s, start) == Split(<<"\n">> \o SubSeq(s, start, Len(s)))

\* line 42: `not block.strip() or not block.startswith('export')`
Skipped(block) == IsBlank(block) \/ Tok(block, 1) # "export"

\* the comparison `i < len(function_blocks)`
NotLastInclusive(k, n) == k <= n

\* line 57: `i < len(function_blocks) - 1`, i counted from 1 here
NotLast(k, n) == k < n

\* line 59: method_block.rstrip() + ','
WithComma(mb) == RStrip(mb) \o <<",">>

\* lines 46-59: one block to its method block; k is the block's index in the
\* list of n elements
ConvertBlock(block, k, n) ==
    LET mb == Indent(SubFunction(SubExport(block))) IN
    IF NotLast(k, n) THEN WithComma(mb) ELSE mb

\* lines 9-12: the call starts with fresh locals and reads the file, whose
\* content is f
Read(f) ==
    /\ content' = f
    /\ exports' = <<>>
    /\ new_content' = <<>>
    /\ function_blocks' = <<>>
    /\ i' = 1
    /\ emitted' = <<>>
    /\ pc' = "scan"

\* lines 15-39: find the exports, start the output, split the rest
Scan ==
    /\ pc = "scan"
    /\ exports' = FindAll(content)
    /\ LET start == Search(content) IN
       IF NoExports(exports') \/ start = 0
       THEN /\ result' = "False"
            /\ pc' = "ret"
            /\ UNCHANGED <<new_content, function_blocks>>
       ELSE /\ new_content' = Opening(content, start, service_name)
            /\ function_blocks' = FunctionBlocks(content, start)
            /\ pc' = "loop"
            /\ UNCHANGED result
    /\ UNCHANGED <<file, service_name, content, i, emitted, calls, idx, attempted>>

\* the loop with the file written after each block rather than once at the end
LoopBlockWritesThrough ==
    /\ pc = "loop"
    /\ i <= Len(function_blocks)
    /\ LET block == function_blocks[i] IN
       IF block.none
       THEN /\ result' = "raised"
            /\ pc' = "ret"
            /\ UNCHANGED <<new_content, emitted, i, file>>
       ELSE IF Skipped(block.text)
       THEN /\ i' = i + 1
            /\ UNCHANGED <<new_content, emitted, result, pc, file>>
       ELSE LET mb == ConvertBlock(block.text, i, Len(function_blocks)) IN
            /\ new_content' = new_content \o mb \o <<"\n">>
            /\ file' = new_content'
            /\ emitted' = Append(emitted, mb)
            /\ i' = i + 1
            /\ UNCHANGED <<result, pc>>
    /\ UNCHANGED <<service_name, content, exports, function_blocks, calls,
                   idx, attempted>>

\* lines 41-61: one iteration of the loop over function_blocks.  An element
\* that is None has no strip(): the AttributeError leaves the function.
LoopBlock ==
    /\ pc = "loop"
    /\ i <= Len(function_blocks)
    /\ LET block == function_blocks[i] IN
       IF block.none
       THEN /\ result' = "raised"
            /\ pc' = "ret"
            /\ UNCHANGED <<new_content, emitted, i>>
       ELSE IF Skipped(block.text)
       THEN /\ i' = i + 1
            /\ UNCHANGED <<new_content, emitted, result, pc>>
       ELSE LET mb == ConvertBlock(block.text, i, Len(function_blocks)) IN
            /\ new_content' = new_content \o mb \o <<"\n">>
            /\ emitted' = Append(emitted, mb)
            /\ i' = i + 1
            /\ UNCHANGED <<result, pc>>
    /\ UNCHANGED <<file, service_name, content, exports, function_blocks, calls,
                   idx, attempted>>

\* lines 63-70: close the object literal, write the file, return True
Write ==
    /\ pc = "loop"
    /\ i > Len(function_blocks)
    /\ new_content' = new_content \o Footer
    /\ file' = new_content'
    /\ result' = "True"
    /\ pc' = "ret"
    /\ UNCHANGED <<service_name, content, exports, function_blocks, i, emitted,
                   calls, idx, attempted>>

-----------------------------------------------------------------------------
(* Input files *)

PlainExport == <<"export", " ", "function", " ", "x", "(">>
AsyncExport == <<"export", " ", "async", " ", "function", " ", "y", "(">>
GeneratorExport == <<"export", " ", "async", " ", "function", "*">>
PlainFunction == <<"function", " ", "z", "(">>

\* the pieces input files are made of
Pieces == {PlainExport, AsyncExport, GeneratorExport, PlainFunction,
           <<"export">>, <<"function">>, <<"\n">>, <<" ">>, <<"}">>}

\* the files of at most n pieces
Inputs(n) == {Flatten(ps) : ps \in UNION {[1..m -> Pieces] : m \in 0..n}}

-----------------------------------------------------------------------------
(* A caller that converts one file repeatedly *)

\* lines 76-91
services_to_convert == <<
    <<"status-service.js", "statusService">>,
    <<"checklist-service.js", "checklistService">>,
    <<"tag-service.js", "tagService">>,
    <<"comment-service.js", "commentService">>,
    <<"time-tracking-service.js", "timeTrackingService">>,
    <<"auth-service.js", "authService">>,
    <<"realtime-service.js", "realtimeService">>,
    <<"activity-service.js", "activityService">>,
    <<"space-service.js", "spaceService">>,
    <<"project-service.js", "projectService">>,
    <<"gantt-service.js", "ganttService">>,
    <<"dashboard-service.js", "dashboardService">>,
    <<"reports-service.js", "reportsService">>,
    <<"profile-service.js", "profileService">> >>

\* the file does not exist
Missing == <<"<missing>">>

Init ==
    /\ file \in Inputs(MaxPieces)
    /\ service_name = services_to_convert[1][2]
    /\ pc = "idle"
    /\ content = <<>>
    /\ exports = <<>>
    /\ new_content = <<>>
    /\ function_blocks = <<>>
    /\ i = 1
    /\ emitted = <<>>
    /\ result = "none"
    /\ calls = <<>>
    /\ idx = 1
    /\ attempted = <<>>

\* convert_service_file(filepath, service_name) is called
Call ==
    /\ pc = "idle"
    /\ Len(calls) < MaxCalls
    /\ Read(file)
    /\ UNCHANGED <<file, service_name, result, calls, idx, attempted>>

\* the call returns or raises to the caller
Return ==
    /\ pc = "ret"
    /\ calls' = Append(calls, [result |-> result, before |-> content, after |-> file])
    /\ pc' = "idle"
    /\ UNCHANGED <<file, service_name, locals, result, idx, attempted>>

Next == Call \/ Scan \/ LoopBlock \/ Write \/ Return

Spec == Init /\ [][Next]_vars

-----------------------------------------------------------------------------
(* main *)

InitMain ==
    /\ file = Missing
    /\ service_name = ""
    /\ pc = "main"
    /\ content = <<>>
    /\ exports = <<>>
    /\ new_content = <<>>
    /\ function_blocks = <<>>
    /\ i = 1
    /\ emitted = <<>>
    /\ result = "none"
    /\ calls = <<>>
    /\ idx = 1
    /\ attempted = <<>>

\* the call made without try/except: an exception ends main
AfterCallUncaught(r) == IF r = "raised" THEN "aborted" ELSE "main"

\* lines 96-99: where main goes on after the call: an exception is caught
AfterCall(r) == "main"

\* lines 93-97, 100-101: the next entry of the table: a missing file is
\* reported, a file that exists is handed to convert_service_file.  Each path
\* is opened by one iteration only, so the state of the file at that path is
\* drawn when the iteration reaches it.
MainEntry ==
    /\ pc = "main"
    /\ idx <= Len(services_to_convert)
    /\ \E f \in Inputs(MaxMainPieces) \cup {Missing} :
          /\ file' = f
          /\ IF f = Missing
             THEN /\ attempted' = Append(attempted, services_to_convert[idx][1])
                  /\ idx' = idx + 1
                  /\ UNCHANGED <<pc, service_name, locals>>
             ELSE /\ service_name' = services_to_convert[idx][2]
                  /\ Read(f)
                  /\ UNCHANGED <<attempted, idx>>
    /\ UNCHANGED <<result, calls>>

\* lines 96-99: the call is over; on to the next entry
MainReturn ==
    /\ pc = "ret"
    /\ attempted' = Append(attempted, services_to_convert[idx][1])
    /\ idx' = idx + 1
    /\ pc' = AfterCall(result)
    /\ UNCHANGED <<file, service_name, locals, result, calls>>

\* line 93: the table is exhausted
MainExit ==
    /\ pc = "main"
    /\ idx > Len(services_to_convert)
    /\ pc' = "exit"
    /\ UNCHANGED <<file, service_name, locals, result, calls, idx, attempted>>

NextMain == MainEntry \/ Scan \/ LoopBlock \/ Write \/ MainReturn \/ MainExit

SpecMain == InitMain /\ [][NextMain]_vars

-----------------------------------------------------------------------------
(* What the patterns match, stated by the positions of a match rather than *)
(* by a scan                                                               *)

\* s[a..b] is a non-empty run of whitespace
WSRun(s, a, b) == a <= b /\ \A k \in a..b : Tok(s, k) \in WS

\* s[a..b] is a non-empty run of word characters
WordRun(s, a, b) == a <= b /\ \A k \in a..b : IsWord(Tok(s, k))

\* `export`, whitespace, optionally `async` and whitespace, `function` at f
IsHead(s, p, f, isAsync) ==
    /\ Tok(s, p) = "export"
    /\ Tok(s, f) = "function"
    /\ IF isAsync
       THEN \E a \in (p + 2)..(f - 2) :
               Tok(s, a) = "async" /\ WSRun(s, p + 1, a - 1) /\ WSRun(s, a + 1, f - 1)
       ELSE WSRun(s, p + 1, f - 1)

\* `function` at f, whitespace, the name s[n..e], optional whitespace, `(` at o
IsSignature(s, f, n, e, o) ==
    /\ Tok(s, f) = "function"
    /\ Tok(s, o) = "("
    /\ WSRun(s, f + 1, n - 1)
    /\ WordRun(s, n, e)
    /\ \A k \in (e + 1)..(o - 1) : Tok(s, k) \in WS

\* the matches of the export pattern that start at p: <<isAsync, f, n, e>>
ExportMatches(s, p) ==
    IF ~(AtLineStart(s, p) /\ Tok(s, p) = "export") THEN {}
    ELSE LET heads == {h \in BOOLEAN \X ((p + 2)..Len(s)) :
                          Tok(s, h[2]) = "function" /\ IsHead(s, p, h[2], h[1])}
             names(f) == {n \in (f + 2)..Len(s) :
                             WSRun(s, f + 1, n - 1) /\ IsWord(Tok(s, n))}
             ends(f, n) == {e \in n..Len(s) :
                               \E o \in (e + 1)..Len(s) : IsSignature(s, f, n, e, o)}
         IN  UNION {UNION {{<<h[1], h[2], n, e>> : e \in ends(h[2], n)} :
                              n \in names(h[2])} : h \in heads}

\* the positions where a line matching the export pattern starts
ExportStarts(s) == {p \in 1..Len(s) : ExportMatches(s, p) # {}}

\* the positions where a line starts with export\s+(async\s+)?function
SplitStarts(s) ==
    {p \in 1..Len(s) :
        /\ AtLineStart(s, p)
        /\ Tok(s, p) = "export"
        /\ \E f \in (p + 2)..Len(s), isAsync \in BOOLEAN : IsHead(s, p, f, isAsync)}

Min(S) == CHOOSE x \in S : \A y \in S : x <= y

\* the split points from the first export match on
BlockStarts(s) ==
    LET first == Min(ExportStarts(s)) IN {p \in SplitStarts(s) : p >= first}

\* t starts with the head of a method: two spaces, optionally `async` and
\* whitespace, a name, `(`
HasMethodHead(t) ==
    LET q == IF Tok(t, 3) = "async" /\ Tok(t, 4) \in WS THEN SkipWS(t, 4) ELSE 3 IN
    /\ Tok(t, 1) = " " /\ Tok(t, 2) = " "
    /\ IsWord(Tok(t, q))
    /\ Tok(t, SkipWord(t, q)) = "("

RECURSIVE Sorted(_)
\* the elements of a set of numbers in increasing order
Sorted(S) == IF S = {} THEN <<>> ELSE <<Min(S)>> \o Sorted(S \ {Min(S)})

\* the method signature the export at p is to become: two spaces, `async` and
\* its whitespace when the export is async, the name, `(`
MethodSignature(s, p) ==
    LET m == CHOOSE m \in ExportMatches(s, p) : TRUE IN
    <<" ", " ">>
        \o (IF m[1] THEN SubSeq(s, SkipWS(s, p + 1), m[2] - 1) ELSE <<>>)
        \o SubSeq(s, m[3], m[4]) \o <<"(">>

StartsWith(t, pre) == Len(t) >= Len(pre) /\ SubSeq(t, 1, Len(pre)) = pre

\* the export match at p is of an async function
IsAsyncExport(s, p) == \E m \in ExportMatches(s, p) : m[1]

\* the elements of function_blocks that are blocks of text starting with export
TextBlocks(fb) ==
    LET keep == {k \in 1..Len(fb) : ~fb[k].none /\ Tok(fb[k].text, 1) = "export"} IN
    [k \in 1..Cardinality(keep) |-> fb[Sorted(keep)[k]].text]

RECURSIVE Join(_, _)
\* the texts of ss, sep between each two
Join(ss, sep) ==
    IF ss = <<>> THEN <<>>
    ELSE IF Len(ss) = 1 THEN ss[1]
    ELSE ss[1] \o sep \o Join(Tail(ss), sep)

\* the number of commas of a text
Commas(t) == Cardinality({k \in 1..Len(t) : t[k] = ","})

\* a call of convert_service_file is over
Returned == pc = "ret"
Succeeded == pc = "ret" /\ result = "True"

-----------------------------------------------------------------------------
(* Claims *)

\* C1: for a file with N >= 1 lines matching the export pattern the call writes
\* an object literal with exactly N method entries, one per export match, in
\* the order of the exports.
C1_Completeness ==
    (Returned /\ ExportStarts(content) # {}) =>
        LET starts == Sorted(ExportStarts(content)) IN
        /\ result = "True"
        /\ Len(emitted) = Len(starts)
        /\ \A k \in 1..Len(starts) :
              StartsWith(emitted[k], MethodSignature(content, starts[k]))

\* C2: for an input that mixes plain and async exports the call succeeds, and
\* each export has its method, `name(` for a plain one and `async name(` for an
\* async one.
C2_MixedExports ==
    (/\ Returned
     /\ \E p \in ExportStarts(content) : IsAsyncExport(content, p)
     /\ \E p \in ExportStarts(content) : ~IsAsyncExport(content, p)) =>
        /\ result = "True"
        /\ \A p \in ExportStarts(content) :
              \E k \in 1..Len(emitted) :
                  StartsWith(emitted[k], MethodSignature(content, p))

\* C3: a call on a file with no line matching the export pattern returns False
\* and leaves the file as it was.
C3_NoExportsNoOp ==
    (Returned /\ ExportStarts(content) = {}) => (result = "False" /\ file = content)

\* C3 witness: a call is over on a file that holds the export keyword but no
\* line matching the pattern
C3_Witness ==
    /\ Returned
    /\ ExportStarts(content) = {}
    /\ \E k \in 1..Len(content) : content[k] = "export"
    /\ result = "False"

C5_OutputLayout ==
    Succeeded =>
        LET first == Min(ExportStarts(content))
            nonws == {k \in 1..(first - 1) : content[k] \notin WS}
            trimmed == IF nonws = {} THEN 0 ELSE CHOOSE k \in nonws : \A j \in nonws : j <= k
        IN  file = SubSeq(content, 1, trimmed)
                   \o <<"\n", "\n">>
                   \o <<"export", " ", "const", " ", service_name, " ", "=", " ", "{", "\n">>
                   \o Flatten([k \in 1..Len(emitted) |-> emitted[k] \o <<"\n">>])
                   \o <<"}", ";", "\n">>

\* C5 witness: a successful conversion of a file whose text before the first
\* export ends in whitespace after other text
C5_Witness ==
    /\ Succeeded
    /\ LET first == Min(ExportStarts(content)) IN
       /\ first > 2
       /\ content[first - 2] \in WS
       /\ \E k \in 1..(first - 1) : content[k] \notin WS

Partitioned == pc = "loop" /\ i = 1

\* C8 as stated: the text before the first match followed by the function
\* blocks, in order, is the source text, and each block runs from one export
\* match's start to the next export match's start (or the end of the file).
C8_PartitionExact ==
    Partitioned =>
        LET starts == Sorted(ExportStarts(content))
            blocks == TextBlocks(function_blocks)
            bound(k) == IF k > Len(starts) THEN Len(content) + 1 ELSE starts[k]
        IN  /\ SubSeq(content, 1, starts[1] - 1) \o Flatten(blocks) = content
            /\ Len(blocks) = Len(starts)
            /\ \A k \in 1..Len(starts) :
                  blocks[k] = SubSeq(content, starts[k], bound(k + 1) - 1)

\* C8 amended: the text before the first match followed by the function blocks
\* joined by single newlines is the source text; each block runs from the start
\* of a line that begins export\s+(async\s+)?function, the first of them the
\* first export match, up to, not including, the newline before the next such
\* line (or to the end of the file).
C8_PartitionByNewlines ==
    Partitioned =>
        LET starts == Sorted(BlockStarts(content))
            blocks == TextBlocks(function_blocks)
            bound(k) == IF k > Len(starts) THEN Len(content) + 2 ELSE starts[k]
        IN  /\ starts[1] = Min(ExportStarts(content))
            /\ SubSeq(content, 1, starts[1] - 1) \o Join(blocks, <<"\n">>) = content
            /\ Len(blocks) = Len(starts)
            /\ \A k \in 1..Len(starts) :
                  blocks[k] = SubSeq(content, starts[k], bound(k + 1) - 2)

\* C8 witness: a source text split into two blocks or more, one of them at a
\* line that is no export match
C8_Witness ==
    /\ Partitioned
    /\ Len(TextBlocks(function_blocks)) >= 2
    /\ ExportStarts(content) # BlockStarts(content)

C10_Stable ==
    \A k \in 1..Len(calls) :
        calls[k].result = "True" =>
            /\ ExportStarts(calls[k].after) = {}
            /\ k < Len(calls) =>
                  /\ calls[k + 1].result = "False"
                  /\ calls[k + 1].before = calls[k].after
                  /\ calls[k + 1].after = calls[k].after

\* C10 witness: a second call is over on a file the first call converted
C10_Witness == Len(calls) >= 2 /\ calls[1].result = "True" /\ calls[2].result = "False"

\* the guards of the steps of main and of the call it makes: some step of
\* NextMain can be taken
MainCanStep ==
    \/ pc = "main" /\ idx <= Len(services_to_convert)
    \/ pc = "main" /\ idx > Len(services_to_convert)
    \/ pc = "scan"
    \/ pc = "loop" /\ i <= Len(function_blocks)
    \/ pc = "loop" /\ i > Len(function_blocks)
    \/ pc = "ret"

\* C7: main deals with every entry of the table in table order and gets to the
\* end: whatever the calls do (file missing, False, True, exception), the
\* entries dealt with are the leading entries of the table, main has a next
\* step until it has left the loop, and it leaves the loop only past the last
\* entry.
C7_BatchCompletes ==
    /\ idx \in 1..(Len(services_to_convert) + 1)
    /\ attempted = [k \in 1..(idx - 1) |-> services_to_convert[k][1]]
    /\ pc # "exit" => MainCanStep
    /\ pc = "exit" => Len(attempted) = Len(services_to_convert)

\* C7 witness: main left the loop after a missing last file and an earlier
\* call that raised
C7_Witness ==
    /\ pc = "exit"
    /\ file = Missing
    /\ result = "raised"
    /\ Len(attempted) = Len(services_to_convert)

====
